---- MODULE Spec2Model ----
(***************************************************************************)
(* Model of project1/atoms.py (class Atom: read_atom and the Boltzmann /   *)
(* Saha solver methods) together with the writer of its input file in      *)
(* project1/read_nist.py.                                                  *)
(*                                                                         *)
(* Numbers.  numpy float64 values are modelled as exact rationals extended *)
(* with the IEEE special values the code relies on: NaN (the padding of    *)
(* the ragged grids) and +/-infinity (division by zero).  A value is a     *)
(* record [k, n, d]: k = "fin" (the rational n/d in lowest terms, d > 0),  *)
(* k = "nan", or k = "inf" (n is the sign).  Rounding, overflow and        *)
(* underflow of float64 and the sign of zero are not modelled.             *)
(*                                                                         *)
(* Units.  The model uses units in which k_B = 1 and 2 pi m_e k_B / h^2 = 1*)
(* and h c = HC; exp is taken to base 2 with the exponent rounded down, so *)
(* that every Boltzmann factor is a rational (exp(0) = 1, monotone,        *)
(* strictly positive on finite arguments, as the real exp on float64       *)
(* arguments of moderate size).                                            *)
(*                                                                         *)
(* Specifications.  Spec: the file as read_nist.py writes it, read_atom    *)
(* and the solver methods.  SpecBuild: a file with any lines, read_atom    *)
(* alone.  SpecReload: SpecBuild plus the rewriting of the file.  Init is  *)
(* Atom(); Atom(atomfile) is Atom() followed by read_atom.                 *)
(***************************************************************************)
EXTENDS Integers, Sequences, FiniteSets, TLC

\* ------------------------------------------------------------------ bounds
\* Longest input file, in records (lines).
MaxRecs == 3
\* Largest ionisation-stage index written in the file.
MaxStage == 2
\* Temperatures are -1, 0 and the squares 1, 4, ..., MaxRootT^2.
MaxRootT == 2
\* Electron pressures are 0 .. MaxP.
MaxP == 2

\* -------------------------------------------------------- program constants
\* astropy constants.k_B in model units.
k_B == 1
\* h c: the factor of the cm^-1 -> aJ conversion (units.spectral()).
HC == 2
\* 2 pi m_e k_B / h^2 in model units.
SahaFactor == 1

\* ------------------------------------------------------------------ floats
Abs(x) == IF x < 0 THEN 0 - x ELSE x

RECURSIVE Gcd(_, _)
Gcd(a, b) == IF b = 0 THEN a ELSE Gcd(b, a % b)

RECURSIVE Pow2(_)
Pow2(e) == IF e <= 0 THEN 1 ELSE 2 * Pow2(e - 1)

\* floor(sqrt(x)) for x >= 0
Isqrt(x) == CHOOSE q \in 0..x : q * q <= x /\ (q + 1) * (q + 1) > x

NaN == [k |-> "nan", n |-> 0, d |-> 1]

Inf(sign) == [k |-> "inf", n |-> sign, d |-> 1]

\* the rational n/d (d # 0) in lowest terms
Fin(n, d) ==
    LET s == IF d < 0 THEN 0 - 1 ELSE 1
        c == Gcd(Abs(n), Abs(d))
    IN  [k |-> "fin", n |-> (s * n) \div c, d |-> (s * d) \div c]

Num(i) == [k |-> "fin", n |-> i, d |-> 1]

\* the rational (a * b) / (c * d) with c * d # 0, reduced before multiplying
Ratio(a, b, c, d) ==
    LET p == Gcd(Abs(a), Abs(c))
        q == Gcd(Abs(b), Abs(d))
        a1 == a \div (IF p = 0 THEN 1 ELSE p)
        c1 == c \div (IF p = 0 THEN 1 ELSE p)
        b1 == b \div (IF q = 0 THEN 1 ELSE q)
        d1 == d \div (IF q = 0 THEN 1 ELSE q)
    IN  Fin(a1 * b1, c1 * d1)

IsNaN(x) == x.k = "nan"

IsReal(x) == x.k = "fin"

IsZero(x) == x.k = "fin" /\ x.n = 0

\* sign of a non-NaN value; zero counts as positive (numpy: x / 0.0)
Sgn(x) == IF x.n < 0 THEN 0 - 1 ELSE 1

FNeg(x) == IF x.k = "nan" THEN NaN ELSE [x EXCEPT !.n = 0 - x.n]

FAdd(x, y) ==
    IF x.k = "nan" \/ y.k = "nan" THEN NaN
    ELSE IF x.k = "inf" /\ y.k = "inf"
         THEN (IF x.n = y.n THEN x ELSE NaN)
    ELSE IF x.k = "inf" THEN x
    ELSE IF y.k = "inf" THEN y
    ELSE LET c == Gcd(x.d, y.d)
         IN  Fin(x.n * (y.d \div c) + y.n * (x.d \div c), (x.d \div c) * y.d)

FSub(x, y) == FAdd(x, FNeg(y))

FMul(x, y) ==
    IF x.k = "nan" \/ y.k = "nan" THEN NaN
    ELSE IF x.k = "inf" \/ y.k = "inf"
         THEN (IF IsZero(x) \/ IsZero(y) THEN NaN ELSE Inf(Sgn(x) * Sgn(y)))
    ELSE Ratio(x.n, y.n, x.d, y.d)

FDiv(x, y) ==
    IF x.k = "nan" \/ y.k = "nan" THEN NaN
    ELSE IF IsZero(y)
         THEN (IF IsZero(x) THEN NaN ELSE Inf(Sgn(x)))
    ELSE IF y.k = "inf"
         THEN (IF x.k = "inf" THEN NaN ELSE Num(0))
    ELSE IF x.k = "inf" THEN Inf(Sgn(x) * Sgn(y))
    ELSE Ratio(x.n, y.d, x.d, y.n)

\* numpy.exp
FExp(x) ==
    IF x.k = "nan" THEN NaN
    ELSE IF x.k = "inf" THEN (IF x.n > 0 THEN x ELSE Num(0))
    ELSE LET f == x.n \div x.d
         IN  IF f >= 0 THEN Fin(Pow2(f), 1) ELSE Fin(1, Pow2(0 - f))

\* x ** (3/2)
FPow32(x) ==
    IF x.k = "nan" THEN NaN
    ELSE IF x.k = "inf" THEN (IF x.n > 0 THEN x ELSE NaN)
    ELSE IF x.n < 0 THEN NaN
    ELSE LET a == Isqrt(x.n)
             b == Isqrt(x.d)
         IN  Fin(a * a * a, b * b * b)

\* numpy.nansum over a finite sequence of values: NaN counts as zero
RECURSIVE NanSumSeq(_)
NanSumSeq(s) ==
    IF s = <<>> THEN Num(0)
    ELSE FAdd(IF IsNaN(Head(s)) THEN Num(0) ELSE Head(s), NanSumSeq(Tail(s)))

\* a 0-based vector as a sequence
AsSeq(v, len) == [i \in 1..len |-> v[i - 1]]

NanSum(v, len) == NanSumSeq(AsSeq(v, len))

\* ------------------------------------------------------------------- state
VARIABLES
    file,               \* records (lines) of the atom file on disk
    loaded,             \* Atom.loaded
    n_stages,           \* Atom.n_stages
    max_levels,         \* Atom.max_levels
    g,                  \* Atom.g: grid of statistical weights
    chi,                \* Atom.chi: grid of level energies
    chi_ion,            \* Atom.chi_ion: ionisation energy per stage
    attrs,              \* names of the attributes set on the Atom instance
    pc,                 \* "idle", or "saha" inside compute_ionisation's loop
    last_call,          \* the method called last
    outcome,            \* "none", "ok" or the exception the last call raised
    result,             \* the value the last call returned
    temperature,        \* compute_ionisation's arguments and locals
    electron_pressure,
    N_e,
    pfunc,
    saha_const,
    nstage,
    r

table == <<loaded, n_stages, max_levels, g, chi, chi_ion, attrs>>

locals == <<temperature, electron_pressure, N_e, pfunc, saha_const, nstage, r>>

vars == <<file, loaded, n_stages, max_levels, g, chi, chi_ion, attrs, pc,
          last_call, outcome, result, temperature, electron_pressure, N_e,
          pfunc, saha_const, nstage, r>>

\* --------------------------------------------------------------- the inputs
\* (energy in cm^-1, statistical weight) pairs a line of the file may hold
Levels == {[e |-> 0, g |-> 2], [e |-> 1, g |-> 1]}

\* read_nist.py numbers the stages from 0 (nstage = i - 1)
Stages == 0..MaxStage

\* the lines read_nist.py writes
Records == {[e |-> lv.e, g |-> lv.g, s |-> st] : lv \in Levels, st \in Stages}

\* numpy.loadtxt takes any number in the third column
LineStages == (0 - 2)..MaxStage

\* the lines a file given to read_atom may hold
Lines == {[e |-> lv.e, g |-> lv.g, s |-> st] : lv \in Levels, st \in LineStages}

Temperatures == {0 - 1, 0} \cup {t * t : t \in 1..MaxRootT}

Pressures == 0..MaxP

\* ------------------------------------------------------------------- grids
\* A grid is a function 0..rows-1 -> (0..cols-1 -> value).
Rows(a) == Cardinality(DOMAIN a)

Cols(a) == IF Rows(a) = 0 THEN 0 ELSE Cardinality(DOMAIN a[0])

NoValue == <<>>

\* Mutant of NanGrid: the padding is numpy.zeros, not NaN.
ZeroGrid(rows, cols) == [i \in 0..(rows - 1) |-> [l \in 0..(cols - 1) |-> Num(0)]]

\* numpy.empty((rows, cols)) filled with NaN
NanGrid(rows, cols) == [i \in 0..(rows - 1) |-> [l \in 0..(cols - 1) |-> NaN]]

\* ---------------------------------------------------------------- read_atom
\* (tmp[2] == i).sum()
nlevels(tmp, i) == Cardinality({j \in 1..Len(tmp) : tmp[j].s = i})

\* tmp[c][tmp[2] == i]: the records of stage i, in file order
StageRecords(tmp, i) == SelectSeq(tmp, LAMBDA rec : rec.s = i)

\* int(tmp[2].max()) + 1
NumStages(tmp) ==
    (CHOOSE m \in {tmp[j].s : j \in 1..Len(tmp)} :
        \A j \in 1..Len(tmp) : tmp[j].s <= m) + 1

\* the loop of lines 41-43
RECURSIVE MaxLevelsUpTo(_, _)
MaxLevelsUpTo(tmp, n) ==
    IF n <= 0 THEN 0
    ELSE LET rest == MaxLevelsUpTo(tmp, n - 1)
             here == nlevels(tmp, n - 1)
         IN  IF here > rest THEN here ELSE rest

\* a grid after  grid[i, :nlevels] = column[tmp[2] == i]  for every row i
\* (the loop of lines 49-52); field is "e" (tmp[0]) or "g" (tmp[1])
FilledGrid(base, tmp, field) ==
    [i \in DOMAIN base |->
        [l \in DOMAIN base[i] |->
            IF l < nlevels(tmp, i)
            THEN Num(IF field = "e" THEN StageRecords(tmp, i)[l + 1].e
                                    ELSE StageRecords(tmp, i)[l + 1].g)
            ELSE base[i][l]]]

\* (chi / units.cm).to('aJ', equivalencies=units.spectral())
ToEnergy(x) == FMul(x, Num(HC))

ConvertGrid(a) == [i \in DOMAIN a |-> [l \in DOMAIN a[i] |-> ToEnergy(a[i][l])]]

\* chi[:, 0].copy()
FirstColumn(a) == [i \in DOMAIN a |-> a[i][0]]

\* chi - self.chi_ion[:, numpy.newaxis]
RelativeGrid(a, ion) ==
    [i \in DOMAIN a |-> [l \in DOMAIN a[i] |-> FSub(a[i][l], ion[i])]]

\* The scripts are single-threaded: a method is called, or the file is
\* rewritten, only after the previous call has returned and its value has
\* been taken.
Ready == pc = "idle" /\ outcome = "none"

Raise(call, exc) ==
    /\ last_call' = call
    /\ outcome' = exc
    /\ result' = NoValue

Return(call, value) ==
    /\ last_call' = call
    /\ outcome' = "ok"
    /\ result' = value

read_atom ==
    /\ Ready
    /\ UNCHANGED <<file, pc, locals>>
    /\ IF Len(file) = 0
       THEN \* tmp[2] of an empty array: IndexError before any assignment
            /\ Raise("read_atom", "IndexError")
            /\ UNCHANGED table
       ELSE LET tmp == file
                ns == NumStages(tmp)
                ml == MaxLevelsUpTo(tmp, ns)
            IN  /\ n_stages' = ns
                /\ max_levels' = ml
                /\ IF ns < 0
                   THEN \* numpy.empty: negative dimensions are not allowed
                        /\ attrs' = attrs \cup {"n_stages", "max_levels"}
                        /\ Raise("read_atom", "ValueError")
                        /\ UNCHANGED <<loaded, g, chi, chi_ion>>
                   ELSE LET empty == NanGrid(ns, ml)
                            chi0 == ConvertGrid(FilledGrid(empty, tmp, "e"))
                        IN  /\ g' = FilledGrid(empty, tmp, "g")
                            /\ IF ml = 0
                               THEN \* chi[:, 0] of a grid without columns
                                    /\ attrs' = attrs \cup
                                         {"n_stages", "max_levels", "g"}
                                    /\ Raise("read_atom", "IndexError")
                                    /\ UNCHANGED <<loaded, chi, chi_ion>>
                               ELSE /\ chi_ion' = FirstColumn(chi0)
                                    /\ chi' = RelativeGrid(chi0, FirstColumn(chi0))
                                    /\ loaded' = TRUE
                                    /\ attrs' = attrs \cup
                                         {"n_stages", "max_levels", "g",
                                          "chi", "chi_ion"}
                                    /\ Return("read_atom", NoValue)

\* ------------------------------------------------- the writer of the file
\* read_nist.py appends one line per level to the output file, one stage
\* after the other (for i in range(1, 7), then the last stage): the stage
\* index never decreases along the file
AppendRecord ==
    /\ Ready
    /\ Len(file) < MaxRecs
    /\ \E rec \in Records :
          /\ file # <<>> => rec.s >= file[Len(file)].s
          /\ file' = Append(file, rec)
    /\ UNCHANGED <<table, pc, last_call, outcome, result, locals>>

\* any other producer of the text file: a line with any stage index
AppendLine ==
    /\ Ready
    /\ Len(file) < MaxRecs
    /\ \E rec \in Lines : file' = Append(file, rec)
    /\ UNCHANGED <<table, pc, last_call, outcome, result, locals>>

\* read_nist.py opens the output file with mode 'w' and writes the header
TruncateFile ==
    /\ Ready
    /\ file # <<>>
    /\ file' = <<>>
    /\ UNCHANGED <<table, pc, last_call, outcome, result, locals>>

\* ------------------------------------------------------------- the solver
\* numpy broadcasting of two grids (the trailing temperature axis has one
\* entry: the temperature is a scalar)
Broadcastable(a, b) ==
    /\ (Rows(a) = Rows(b) \/ Rows(a) = 1 \/ Rows(b) = 1)
    /\ (Cols(a) = Cols(b) \/ Cols(a) = 1 \/ Cols(b) = 1)

BDim(x, y) == IF x = 1 THEN y ELSE x

At(a, i, l) == a[IF Rows(a) = 1 THEN 0 ELSE i][IF Cols(a) = 1 THEN 0 ELSE l]

\* numpy.exp(-chi / constants.k_B / temp)
Boltzmann(energy, temp) ==
    FExp(FDiv(FDiv(FNeg(energy), Num(k_B)), Num(temp)))

\* the exception a solver method raises on reading self.g and self.chi, if any
SolverError ==
    IF ~({"g", "chi"} \subseteq attrs) THEN "AttributeError"
    ELSE IF ~Broadcastable(g, chi) THEN "ValueError"
    ELSE "none"

\* the plain sum of a 0-based vector: NaN propagates (numpy.sum)
RECURSIVE PlainSumSeq(_)
PlainSumSeq(s) ==
    IF s = <<>> THEN Num(0) ELSE FAdd(Head(s), PlainSumSeq(Tail(s)))

PlainSum(v) == PlainSumSeq(AsSeq(v, Cardinality(DOMAIN v)))

\* Mutant of RowSum: numpy.sum in place of numpy.nansum.
RowSumPlain(terms, cols) == PlainSumSeq(AsSeq(terms, cols))

\* the sum of one row of  self.g * exp(-self.chi / k_B / temp)  over axis 1
RowSum(terms, cols) == NanSum(terms, cols)

\* Atom.compute_partition_function, once self.g and self.chi are readable
PartitionFunction(temp) ==
    LET rows == BDim(Rows(g), Rows(chi))
        cols == BDim(Cols(g), Cols(chi))
    IN  [i \in 0..(rows - 1) |->
            RowSum([l \in 0..(cols - 1) |->
                       FMul(At(g, i, l), Boltzmann(At(chi, i, l), temp))],
                   cols)]

\* Atom.compute_excitation, once self.g and self.chi are readable
Excitation(temp) ==
    LET pf == PartitionFunction(temp)
        rows == BDim(Rows(g), Rows(chi))
        cols == BDim(Cols(g), Cols(chi))
    IN  [i \in 0..(rows - 1) |->
            [l \in 0..(cols - 1) |->
                FMul(FDiv(At(g, i, l), pf[i]),
                     Boltzmann(At(chi, i, l), temp))]]

\* electron_pressure / (constants.k_B * temperature)
ElectronDensity(temp, pe) == FDiv(Num(pe), FMul(Num(k_B), Num(temp)))

\* ((2 pi m_e k_B temperature) / h**2) ** (3/2)
SahaConst(temp) == FPow32(FMul(Num(SahaFactor), Num(temp)))

\* numpy.zeros_like(pfunc) followed by nstage[0] = 1
SeededStage(pf) == [i \in DOMAIN pf |-> IF i = 0 THEN Num(1) ELSE Num(0)]

\* Mutant of SahaNext: every stage is computed from the reference stage 0
\* instead of the stage before it.
SahaNextFromFirst(ns, q, ne, sc, pf, temp) ==
    FMul(FDiv(FMul(FMul(FMul(FDiv(ns[0], ne), Num(2)), sc), pf[q + 1]), pf[q]),
         FExp(FDiv(FNeg(chi_ion[q + 1]), FMul(Num(k_B), Num(temp)))))

\* the right-hand side of the assignment to nstage[r + 1]
SahaNext(ns, q, ne, sc, pf, temp) ==
    FMul(FDiv(FMul(FMul(FMul(FDiv(ns[q], ne), Num(2)), sc), pf[q + 1]), pf[q]),
         FExp(FDiv(FNeg(chi_ion[q + 1]), FMul(Num(k_B), Num(temp)))))

\* Mutant of Denominator: a stage that has a single level (only its
\* ionisation potential) is left out of the sum.
DenominatorExcitedOnly(ns) ==
    NanSum([i \in DOMAIN ns |->
               IF Cols(chi) > 1 /\ IsNaN(chi[i][1]) THEN NaN ELSE ns[i]],
           Cardinality(DOMAIN ns))

\* the sum all fractions are divided by
Denominator(ns) == NanSum(ns, Cardinality(DOMAIN ns))

\* nstage / numpy.nansum(nstage, axis=0)
Normalised(ns) == [i \in DOMAIN ns |-> FDiv(ns[i], Denominator(ns))]

\* the loop of compute_ionisation run from step q to its end
RECURSIVE SahaChain(_, _, _, _, _, _)
SahaChain(ns, q, ne, sc, pf, temp) ==
    IF q >= n_stages - 1 THEN ns
    ELSE SahaChain([ns EXCEPT ![q + 1] = SahaNext(ns, q, ne, sc, pf, temp)],
                   q + 1, ne, sc, pf, temp)

\* Atom.compute_ionisation as one value, once nstage[0] can be assigned
Ionisation(temp, pe) ==
    LET pf == PartitionFunction(temp)
    IN  Normalised(SahaChain(SeededStage(pf), 0, ElectronDensity(temp, pe),
                             SahaConst(temp), pf, temp))

\* excitation * ionisation[:, numpy.newaxis]
Populations(temp, pe) ==
    LET ex == Excitation(temp)
        io == Ionisation(temp, pe)
    IN  [i \in DOMAIN ex |-> [l \in DOMAIN ex[i] |-> FMul(ex[i][l], io[i])]]

compute_partition_function(temp) ==
    /\ Ready
    /\ IF SolverError # "none"
       THEN Raise("compute_partition_function", SolverError)
       ELSE Return("compute_partition_function", PartitionFunction(temp))
    /\ temperature' = temp
    /\ UNCHANGED <<file, table, pc, electron_pressure, N_e, pfunc, saha_const,
                   nstage, r>>

\* Mutant of compute_excitation: the weights are normalised in place, in
\* self.g, before they are used.
compute_excitation_inplace(temp) ==
    /\ Ready
    /\ IF SolverError # "none"
       THEN /\ Raise("compute_excitation", SolverError)
            /\ UNCHANGED g
       ELSE /\ Return("compute_excitation", Excitation(temp))
            /\ g' = [i \in DOMAIN g |-> [l \in DOMAIN g[i] |->
                        FDiv(g[i][l], PartitionFunction(temp)[i])]]
    /\ temperature' = temp
    /\ UNCHANGED <<file, loaded, n_stages, max_levels, chi, chi_ion, attrs,
                   pc, electron_pressure, N_e, pfunc, saha_const, nstage, r>>

compute_excitation(temp) ==
    /\ Ready
    /\ IF SolverError # "none"
       THEN Raise("compute_excitation", SolverError)
       ELSE Return("compute_excitation", Excitation(temp))
    /\ temperature' = temp
    /\ UNCHANGED <<file, table, pc, electron_pressure, N_e, pfunc, saha_const,
                   nstage, r>>

\* compute_ionisation up to the seeding of nstage (lines 107-111)
compute_ionisation(temp, pe) ==
    /\ Ready
    /\ temperature' = temp
    /\ electron_pressure' = pe
    /\ UNCHANGED <<file, table>>
    /\ IF SolverError # "none"
       THEN /\ Raise("compute_ionisation", SolverError)
            /\ UNCHANGED <<pc, N_e, pfunc, saha_const, nstage, r>>
       ELSE LET pf == PartitionFunction(temp)
            IN
            IF Rows(pf) = 0
       THEN \* nstage[0] of an array without rows
            /\ Raise("compute_ionisation", "IndexError")
            /\ UNCHANGED <<pc, N_e, pfunc, saha_const, nstage, r>>
       ELSE /\ N_e' = ElectronDensity(temp, pe)
            /\ pfunc' = pf
            /\ saha_const' = SahaConst(temp)
            /\ nstage' = SeededStage(pf)
            /\ r' = 0
            /\ pc' = "saha"
            /\ last_call' = "compute_ionisation"
            /\ outcome' = "none"
            /\ result' = NoValue

\* one pass of the loop body (lines 112-114)
saha_step ==
    /\ pc = "saha"
    /\ r < n_stages - 1
    /\ nstage' = [nstage EXCEPT
                    ![r + 1] = SahaNext(nstage, r, N_e, saha_const, pfunc,
                                        temperature)]
    /\ r' = r + 1
    /\ UNCHANGED <<file, table, pc, last_call, outcome, result, temperature,
                   electron_pressure, N_e, pfunc, saha_const>>

\* the loop is over: normalise and return (line 118)
saha_return ==
    /\ pc = "saha"
    /\ r >= n_stages - 1
    /\ Return("compute_ionisation", Normalised(nstage))
    /\ pc' = "idle"
    /\ UNCHANGED <<file, table, temperature, electron_pressure, N_e, pfunc,
                   saha_const, nstage, r>>

\* the caller takes the returned value (or handles the exception) and goes
\* on; the frame of the call is gone
take_result ==
    /\ pc = "idle"
    /\ outcome # "none"
    /\ last_call' = "none"
    /\ outcome' = "none"
    /\ result' = NoValue
    /\ temperature' = 0
    /\ electron_pressure' = 0
    /\ N_e' = NaN
    /\ pfunc' = NoValue
    /\ saha_const' = NaN
    /\ nstage' = NoValue
    /\ r' = 0
    /\ UNCHANGED <<file, table, pc>>

compute_populations(temp, pe) ==
    /\ Ready
    /\ IF SolverError # "none"
       THEN Raise("compute_populations", SolverError)
       ELSE IF Rows(PartitionFunction(temp)) = 0
       THEN Raise("compute_populations", "IndexError")
       ELSE Return("compute_populations", Populations(temp, pe))
    /\ temperature' = temp
    /\ electron_pressure' = pe
    /\ UNCHANGED <<file, table, pc, N_e, pfunc, saha_const, nstage, r>>

\* Atom(): no atom file given, nothing loaded
Init ==
    /\ file = <<>>
    /\ loaded = FALSE
    /\ n_stages = 0
    /\ max_levels = 0
    /\ g = NoValue
    /\ chi = NoValue
    /\ chi_ion = NoValue
    /\ attrs = {"loaded"}
    /\ pc = "idle"
    /\ last_call = "none"
    /\ outcome = "none"
    /\ result = NoValue
    /\ temperature = 0
    /\ electron_pressure = 0
    /\ N_e = NaN
    /\ pfunc = NoValue
    /\ saha_const = NaN
    /\ nstage = NoValue
    /\ r = 0

Next ==
    \/ AppendRecord
    \/ read_atom
    \/ \E temp \in Temperatures : compute_partition_function(temp)
    \/ \E temp \in Temperatures : compute_excitation(temp)
    \/ \E temp \in Temperatures, pe \in Pressures : compute_ionisation(temp, pe)
    \/ saha_step
    \/ saha_return
    \/ \E temp \in Temperatures, pe \in Pressures : compute_populations(temp, pe)
    \/ take_result

Spec == Init /\ [][Next]_vars

NextBuild == AppendLine \/ read_atom \/ take_result

SpecBuild == Init /\ [][NextBuild]_vars

NextReload == AppendLine \/ TruncateFile \/ read_atom \/ take_result

SpecReload == Init /\ [][NextReload]_vars

\* ------------------------------------------------------------ the claims
\* read_atom has just returned normally: file is the input it read
AfterBuild == last_call = "read_atom" /\ outcome = "ok"

StageRange == 0..(n_stages - 1)

LevelRange == 0..(max_levels - 1)

\* the number of input records whose stage index is s
RecordsOfStage(s) == Cardinality({j \in 1..Len(file) : file[j].s = s})

\* the position in the file of the record that is number l (from 0) among
\* the records of stage s
PositionOf(s, l) ==
    CHOOSE j \in 1..Len(file) :
        /\ file[j].s = s
        /\ Cardinality({i \in 1..(j - 1) : file[i].s = s}) = l

\* C1: after read_atom, cell (s, l) of the energy grid holds a real value
\* exactly when l is less than the number of input records of stage s and is
\* absent (NaN) otherwise, and the weight grid is absent in exactly the same
\* cells.
C1_RaggedPadding ==
    AfterBuild =>
        /\ DOMAIN chi = StageRange
        /\ DOMAIN g = StageRange
        /\ \A s \in StageRange :
            /\ DOMAIN chi[s] = LevelRange
            /\ DOMAIN g[s] = LevelRange
            /\ \A l \in LevelRange :
                /\ IsReal(chi[s][l]) <=> l < RecordsOfStage(s)
                /\ IsNaN(chi[s][l]) <=> l >= RecordsOfStage(s)
                /\ IsNaN(g[s][l]) <=> IsNaN(chi[s][l])

\* a ragged table has been built: a stage fills the last column, another
\* stage does not
C1_Witness ==
    /\ AfterBuild
    /\ n_stages >= 2
    /\ max_levels >= 2
    /\ \E s \in StageRange : IsReal(chi[s][max_levels - 1])
    /\ \E s \in StageRange : IsNaN(chi[s][max_levels - 1]) /\ IsNaN(g[s][max_levels - 1])

\* C2: after read_atom, for every stage s the records of s sit in cells
\* 0, 1, ... in file order, chi_ion[s] is the converted energy of the first
\* record of s, every present cell holds energy - chi_ion[s], and cell (s, 0)
\* is exactly 0.
C2_GroundRelative ==
    AfterBuild =>
        \A s \in StageRange :
            /\ chi[s][0] = Num(0)
            /\ RecordsOfStage(s) > 0
            /\ chi_ion[s] = Num(HC * file[PositionOf(s, 0)].e)
            /\ \A l \in 0..(RecordsOfStage(s) - 1) :
                /\ g[s][l] = Num(file[PositionOf(s, l)].g)
                /\ chi[s][l] = Num(HC * file[PositionOf(s, l)].e
                                   - HC * file[PositionOf(s, 0)].e)

\* The part of C2 that the code keeps: the same statement for the stages
\* that have at least one record.
C2_OnPopulatedStages ==
    AfterBuild =>
        \A s \in StageRange :
            RecordsOfStage(s) > 0 =>
                /\ chi[s][0] = Num(0)
                /\ chi_ion[s] = Num(HC * file[PositionOf(s, 0)].e)
                /\ \A l \in 0..(RecordsOfStage(s) - 1) :
                    /\ g[s][l] = Num(file[PositionOf(s, l)].g)
                    /\ chi[s][l] = Num(HC * file[PositionOf(s, l)].e
                                       - HC * file[PositionOf(s, 0)].e)

\* the input is empty, holds a negative stage index, or skips a stage index
Malformed(f) ==
    \/ f = <<>>
    \/ \E j \in 1..Len(f) : f[j].s < 0
    \/ \E j \in 1..Len(f) : \E s \in 0..f[j].s :
           \A i \in 1..Len(f) : f[i].s # s

\* C3: read_atom fails, and builds no table, whenever the input is empty,
\* holds a negative stage index, or skips a stage index.
C3_RejectsMalformed ==
    (last_call = "read_atom" /\ outcome # "none" /\ Malformed(file))
        => outcome # "ok"

\* C4: compute_partition_function and compute_ionisation fail when the
\* temperature is not positive, and compute_ionisation fails when the
\* electron pressure is not positive; no result is returned.
C4_RejectsNonPositive ==
    /\ (/\ last_call \in {"compute_partition_function", "compute_ionisation"}
        /\ outcome # "none"
        /\ temperature <= 0) => outcome # "ok"
    /\ (/\ last_call = "compute_ionisation"
        /\ outcome # "none"
        /\ electron_pressure <= 0) => outcome # "ok"

\* the levels of stage s that are present in the table
PresentLevels(s) == {l \in LevelRange : ~IsNaN(chi[s][l]) /\ ~IsNaN(g[s][l])}

RECURSIVE SumOverLevels(_, _, _)
SumOverLevels(s, levels, temp) ==
    IF levels = {} THEN Num(0)
    ELSE LET l == CHOOSE x \in levels : TRUE
         IN  FAdd(FMul(g[s][l], Boltzmann(chi[s][l], temp)),
                  SumOverLevels(s, levels \ {l}, temp))

\* C5: for a positive temperature compute_partition_function returns, for
\* every stage, the sum over exactly the present levels of the weight times
\* the Boltzmann factor, and that sum is strictly positive when the stage
\* has a present level.
C5_PartitionFunction ==
    (/\ last_call = "compute_partition_function"
     /\ outcome = "ok"
     /\ temperature > 0) =>
        /\ DOMAIN result = StageRange
        /\ \A s \in StageRange :
            /\ result[s] = SumOverLevels(s, PresentLevels(s), temperature)
            /\ PresentLevels(s) # {} => (IsReal(result[s]) /\ result[s].n > 0)

\* a partition function was computed over a ragged table with an excited
\* level
C5_Witness ==
    /\ last_call = "compute_partition_function"
    /\ outcome = "ok"
    /\ temperature > 0
    /\ max_levels >= 2
    /\ \E s \in StageRange : PresentLevels(s) = {0}
    /\ \E s \in StageRange :
           /\ Cardinality(PresentLevels(s)) >= 2
           /\ \E l \in PresentLevels(s) : chi[s][l].n > 0

\* C6: compute_ionisation seeds nstage[0] = 1 and the other entries 0, then
\* for r = 0, 1, ... assigns nstage[r + 1] from nstage[r], pfunc[r + 1],
\* pfunc[r] and chi_ion[r + 1], touching no other entry, and leaves the
\* loop after exactly n_stages - 1 passes.
C6_LeftToRight ==
    [][/\ (pc = "idle" /\ pc' = "saha") =>
            /\ r' = 0
            /\ nstage' = [i \in StageRange |-> IF i = 0 THEN Num(1) ELSE Num(0)]
       /\ (pc = "saha" /\ pc' = "saha") =>
            /\ r < n_stages - 1
            /\ r' = r + 1
            /\ nstage[r + 1] = Num(0)
            /\ \A i \in StageRange : i # r + 1 => nstage'[i] = nstage[i]
            /\ nstage'[r + 1] =
                 FMul(FDiv(FMul(FMul(FMul(FDiv(nstage[r], N_e), Num(2)),
                                     saha_const), pfunc[r + 1]), pfunc[r]),
                      FExp(FDiv(FNeg(chi_ion[r + 1]),
                                FMul(Num(k_B), Num(temperature)))))
            /\ UNCHANGED <<N_e, saha_const, pfunc, temperature, chi_ion>>
       /\ (pc = "saha" /\ pc' = "idle") =>
            /\ r = n_stages - 1
            /\ nstage' = nstage
      ]_vars

\* the loop has made two passes over a three-stage table at a positive
\* temperature and pressure
C6_Witness ==
    /\ pc = "saha"
    /\ n_stages >= 3
    /\ r = 2
    /\ temperature > 0
    /\ electron_pressure > 0
    /\ IsReal(nstage[2])
    /\ nstage[2].n > 0
    /\ nstage[2] # nstage[1]

\* every stage of the table has a ground level
ValidTable == \A s \in StageRange : IsReal(chi[s][0]) /\ IsReal(g[s][0])

\* C7: for a table in which every stage has a level, a positive temperature
\* and a positive pressure, compute_ionisation divides every nstage[r] by
\* the sum of nstage over all stages, a stage with a single level included,
\* and the returned fractions sum to 1.
C7_Normalised ==
    (/\ last_call = "compute_ionisation"
     /\ outcome = "ok"
     /\ temperature > 0
     /\ electron_pressure > 0
     /\ ValidTable) =>
        /\ DOMAIN result = StageRange
        /\ \A s \in StageRange :
            /\ IsReal(result[s])
            /\ result[s] = FDiv(nstage[s], PlainSum(nstage))
        /\ PlainSum(result) = Num(1)

\* ionisation fractions were returned for a table whose last stage has a
\* single level while another stage has two
C7_Witness ==
    /\ last_call = "compute_ionisation"
    /\ outcome = "ok"
    /\ temperature > 0
    /\ electron_pressure > 0
    /\ ValidTable
    /\ n_stages >= 2
    /\ max_levels >= 2
    /\ IsNaN(chi[n_stages - 1][1])
    /\ result[n_stages - 1].n > 0
    /\ \E s \in StageRange : IsReal(chi[s][1])

\* C8: a cell of compute_excitation's output is absent exactly when the
\* table's cell is absent, and every present cell yields a real value.
C8_ExcitationShape ==
    (last_call = "compute_excitation" /\ outcome = "ok") =>
        /\ DOMAIN result = StageRange
        /\ \A s \in StageRange :
            /\ DOMAIN result[s] = LevelRange
            /\ \A l \in LevelRange :
                /\ IsNaN(result[s][l]) <=> IsNaN(chi[s][l])
                /\ ~IsNaN(chi[s][l]) => IsReal(result[s][l])

\* The part of C8 that the code keeps: the same statement for every
\* temperature other than 0.
C8_AwayFromZero ==
    (last_call = "compute_excitation" /\ outcome = "ok" /\ temperature # 0) =>
        /\ DOMAIN result = StageRange
        /\ \A s \in StageRange :
            /\ DOMAIN result[s] = LevelRange
            /\ \A l \in LevelRange :
                /\ IsNaN(result[s][l]) <=> IsNaN(chi[s][l])
                /\ ~IsNaN(chi[s][l]) => IsReal(result[s][l])

fields == <<n_stages, max_levels, g, chi, chi_ion>>

C10_FieldsAgree ==
    loaded =>
        /\ Rows(g) = n_stages
        /\ Rows(chi) = n_stages
        /\ Cardinality(DOMAIN chi_ion) = n_stages

====
